---- MODULE Spec2Model ----
(***************************************************************************)
(* Run / pause / stop control of the heat-transfer simulation.             *)
(*                                                                         *)
(* The GUI thread (HeatTransferWindow, heat_transfer_gui.py) owns          *)
(* simulation_state, the input lock and the control queue, and starts one  *)
(* worker on the thread pool for every new run.  Every worker owns a       *)
(* SimulationController with its Callback and its Sim                      *)
(* (heat_transfer_simulation_utilities.py) and runs complete_simulation.   *)
(* The queue is the one object shared by the GUI and all the workers.      *)
(*                                                                         *)
(* The second part is the forward solver of NumericalForward.py: the       *)
(* Simulation with its matrices, EvaluateNewStep and the loop of           *)
(* ForwardSimulation, in exact arithmetic.                                 *)
(***************************************************************************)
EXTENDS Integers, Sequences, FiniteSets, TLC

\* ------------------------------------------------------------------ bounds
MaxRuns == 2
MaxPosts == 3
NSteps == 2
Dt == 3
CallAt == 1
MaxN == 2
MaxTemp == 1
MaxDt == 2
MaxTStop == 2
MaxForward == 2
MaxCalls == 2
MaxEdits == 2

\* QThreadPool().maxThreadCount(), the number of cores of the machine the window
\* runs on: a machine with two cores.  With more runs than threads a worker
\* waits for a thread.
MaxThreadCount == 2

Workers == 1..MaxRuns

KnownMsgs == {"pause", "stop", "continue"}
AnyMsgs == KnownMsgs \cup {"other"}

VARIABLES
    gui_state,    \* HeatTransferWindow.simulation_state
    locked,       \* the inputs and the material menu are read-only
    queue,        \* HeatTransferWindow.queue: <<[msg, seq]>>, oldest first
    nposted,      \* messages put so far (numbers the messages)
    nconsumed,    \* messages taken so far
    nRuns,        \* workers handed to the thread pool so far
    sigq,         \* finished signals waiting in the GUI event loop
    pc,           \* where each worker is
    cbState,      \* Callback.simulation_state of each worker
    lastCall,     \* Callback.last_call
    stepIdx,      \* Sim.current_step_idx
    hist,         \* the committed history of temperature fields
    emitted,      \* the last value given to progress_callback.emit
    stopAt,       \* steps committed when a stop was consumed in the loop, or -1
    stopPending,  \* the iteration under way began with a stop in the queue
    applied,      \* the messages the worker took and applied, in order
    raised,       \* workers whose get_nowait raised queue.Empty
    plots,        \* the calls of temperature_plot.plot so far, in order
    emits,        \* values emitted by the callback invocation under way or last ended
    error_norm,   \* SimulationController.error_norm
    result,       \* what complete_simulation returned
    cfg,          \* the arguments the forward solver is used with
    Sim,          \* the NumericalForward.Simulation in use
    arrays,       \* the temperature arrays allocated so far, by reference
    fwd,          \* the locals of the ForwardSimulation invocation under way
    fpc,          \* where the forward solver is
    fruns,        \* ForwardSimulation invocations started so far
    CallBack,     \* the DefaultCallBack that is ForwardSimulation's default argument
    form,         \* the input widgets of the window and what run_simulation read last:
                  \*   inputs: the text of every number field not showing its default
                  \*   errors: the error dialogs the latest reading of the fields showed
                  \*   save_data: save_data_checkbox is checked
                  \*   parameters: the parameters handed to the latest worker
    saving        \* of each worker's controller: save_results, and csv, the files written

workerVars == <<pc, cbState, lastCall, stepIdx, hist, emitted, stopAt, stopPending, applied, raised,
               plots, emits, error_norm, result>>
vars == <<gui_state, locked, queue, nposted, nconsumed, nRuns, sigq, pc, cbState,
          lastCall, stepIdx, hist, emitted, stopAt, stopPending, applied, raised,
          plots, emits, error_norm, result, cfg, Sim, arrays, fwd, fpc, fruns,
          CallBack, form, saving>>

fwdVars == <<cfg, Sim, arrays, fwd, fpc, fruns, CallBack>>

ctlVars == <<gui_state, locked, queue, nposted, nconsumed, nRuns, sigq, pc, cbState,
             lastCall, stepIdx, hist, emitted, stopAt, stopPending, applied, raised,
             plots, emits, error_norm, result, form, saving>>

inputVars == <<form, saving>>

\* None, and a value that is not None.
None == <<>>

Some(x) == <<x>>

\* The forward solver is not in use.
FwdUnused ==
    /\ cfg = None
    /\ Sim = None
    /\ arrays = <<>>
    /\ fwd = None
    /\ fpc = "none"
    /\ fruns = 0
    /\ CallBack = None

\* ------------------------------------------------------------------ the Sim
\* A temperature field is written as the sequence of the times t_prev of the steps
\* that produced it from the initial condition: the step is a function of
\* (T_prev, t_prev) alone, so two fields with the same sequence are the same field.
InitialField == <<>>

EvaluateOneStepField(T, tprev) == Append(T, tprev)

CurrentT(w) == stepIdx[w] * Dt

SimulationHasFinished(w) == stepIdx[w] >= NSteps

\* The error norm is a function of what the Sim holds when it is asked for.
CalculateFinalError(w) == [norm_of |-> hist[w]]

Last(s) == s[Len(s)]

\* The history of a run of n steps that nothing interrupts.
RECURSIVE RefHistOf(_)
RefHistOf(n) ==
    IF n = 0 THEN <<InitialField>>
    ELSE LET h == RefHistOf(n - 1)
         IN Append(h, EvaluateOneStepField(Last(h), (n - 1) * Dt))

RefHists == [n \in 0..NSteps |-> RefHistOf(n)]

RefHist(n) == RefHists[n]

\* ------------------------------------------------------------------ the Callback
ShouldReportUnforced(w, force_update) == CurrentT(w) > lastCall[w] + CallAt

ShouldReportAtOrAfter(w, force_update) == CurrentT(w) >= lastCall[w] + CallAt \/ force_update

ShouldReport(w, force_update) == CurrentT(w) > lastCall[w] + CallAt \/ force_update

ReportedLastCall(w, force_update) ==
    IF ShouldReport(w, force_update) THEN lastCall[w] + CallAt ELSE lastCall[w]

\* The slices handed to the plots end before index Sim.current_step_idx.
SliceEndWhole(w) == NSteps + 1

SliceEnd(w) == stepIdx[w]

ReportedPlots(w, force_update) ==
    IF ShouldReport(w, force_update)
    THEN Append(plots[w], [upto |-> SliceEnd(w), forced |-> force_update])
    ELSE plots[w]

QueueEmpty(q) == q = <<>>

QueueGetLifo(q) == [item |-> Last(q), rest |-> SubSeq(q, 1, Len(q) - 1)]

QueueGet(q) == [item |-> Head(q), rest |-> Tail(q)]

ApplyMsgStopOnUnknown(st, msg) ==
    IF msg = "stop" THEN "stopped"
    ELSE IF msg = "pause" THEN "paused"
    ELSE IF msg = "continue" THEN "running"
    ELSE "stopped"

ApplyMsg(st, msg) ==
    IF msg = "stop" THEN "stopped"
    ELSE IF msg = "pause" THEN "paused"
    ELSE IF msg = "continue" THEN "running"
    ELSE st

ValueToEmit(st) == IF st = "running" THEN 1 ELSE 0

StopInQueue == \E i \in 1..Len(queue) : queue[i].msg = "stop"

\* ------------------------------------------------------------------ the loop
LoopActionPauseBreaks(st) ==
    IF st = "running" THEN "step"
    ELSE IF st = "paused" THEN "break"
    ELSE IF st = "stopped" THEN "break"
    ELSE "none"

LoopActionStopSteps(st) ==
    IF st = "running" THEN "step"
    ELSE IF st = "paused" THEN "sleep"
    ELSE IF st = "stopped" THEN "step"
    ELSE "none"

LoopActionPauseSteps(st) ==
    IF st = "running" THEN "step"
    ELSE IF st = "paused" THEN "step"
    ELSE IF st = "stopped" THEN "break"
    ELSE "none"

LoopAction(st) ==
    IF st = "running" THEN "step"
    ELSE IF st = "paused" THEN "sleep"
    ELSE IF st = "stopped" THEN "break"
    ELSE "none"

\* What complete_simulation does with the state the callback returned.
Iterate(w, st) ==
    LET act == LoopAction(st)
    IN /\ pc' = [pc EXCEPT ![w] = IF act = "break" THEN "flush" ELSE "loop"]
       /\ stepIdx' = [stepIdx EXCEPT ![w] = IF act = "step" THEN @ + 1 ELSE @]
       /\ hist' = [hist EXCEPT ![w] =
                      IF act = "step"
                      THEN Append(@, EvaluateOneStepField(Last(@), CurrentT(w)))
                      ELSE @]

\* get_nowait on an empty queue raises queue.Empty, which nothing in the callback
\* or in complete_simulation catches: the call of complete_simulation ends there.
RaiseEmpty(w) ==
    /\ raised' = raised \cup {w}
    /\ pc' = [pc EXCEPT ![w] = "failed"]
    /\ UNCHANGED <<queue, nconsumed, sigq, cbState, stepIdx, hist, emitted, stopAt, applied,
                   emits>>

\* ------------------------------------------------------------------ the user inputs
\* Numbers are written in thousandths: default_value, what a parse function
\* returns and multiplicate_to_SI; a product of two of them is in millionths.
Scale == 1000

\* number_parameters_to_get_from_user of the inverse service, in its order.
Declared ==
    << [name |-> "Simulation step", input_name |-> "simulation_step_input_seconds",
        variable_name |-> "dt", default_value |-> 20000,
        parse_function |-> "float", multiplicate_to_SI |-> 1000],
       [name |-> "Object length", input_name |-> "object_length_input_centimetres",
        variable_name |-> "object_length", default_value |-> 1000,
        parse_function |-> "float", multiplicate_to_SI |-> 10],
       [name |-> "Position of interest", input_name |-> "place_position_input_centimetres",
        variable_name |-> "place_of_interest", default_value |-> 445,
        parse_function |-> "float", multiplicate_to_SI |-> 10],
       [name |-> "Number of elements", input_name |-> "number_of_elements_input",
        variable_name |-> "number_of_elements", default_value |-> 15000,
        parse_function |-> "int", multiplicate_to_SI |-> 1000],
       [name |-> "Plotting period", input_name |-> "plotting_period_input",
        variable_name |-> "callback_period", default_value |-> 1000000,
        parse_function |-> "int", multiplicate_to_SI |-> 1000],
       [name |-> "Theta", input_name |-> "theta_input",
        variable_name |-> "theta", default_value |-> 500,
        parse_function |-> "float", multiplicate_to_SI |-> 1000],
       [name |-> "Robin Alpha", input_name |-> "robin_alpha_input",
        variable_name |-> "robin_alpha", default_value |-> 13500,
        parse_function |-> "float", multiplicate_to_SI |-> 1000],
       [name |-> "Window span", input_name |-> "window_span_input",
        variable_name |-> "window_span", default_value |-> 3000,
        parse_function |-> "int", multiplicate_to_SI |-> 1000],
       [name |-> "Tolerance", input_name |-> "tolerance_input",
        variable_name |-> "tolerance", default_value |-> 1,
        parse_function |-> "float", multiplicate_to_SI |-> 1000],
       [name |-> "Initial Heat Flux", input_name |-> "q_init_input",
        variable_name |-> "q_init", default_value |-> 0,
        parse_function |-> "float", multiplicate_to_SI |-> 1000],
       [name |-> "Initial Heat Flux Adjustment", input_name |-> "init_q_adjustment_input",
        variable_name |-> "init_q_adjustment", default_value |-> 20000,
        parse_function |-> "float", multiplicate_to_SI |-> 1000],
       [name |-> "Adjusting Value Coefficient", input_name |-> "adjusting_value_input",
        variable_name |-> "adjusting_value", default_value |-> -700,
        parse_function |-> "float", multiplicate_to_SI |-> 1000] >>

InputNames == {Declared[k].input_name : k \in 1..Len(Declared)}

VariableNames == {Declared[k].variable_name : k \in 1..Len(Declared)}

\* A text is the sequence of its characters.
DigitChars == <<"0", "1", "2", "3", "4", "5", "6", "7", "8", "9">>

IsDigit(c) == \E i \in 1..Len(DigitChars) : DigitChars[i] = c

DigitValue(c) == (CHOOSE i \in 1..Len(DigitChars) : DigitChars[i] = c) - 1

RECURSIVE DigitsValue(_)
DigitsValue(s) ==
    IF s = <<>> THEN 0
    ELSE 10 * DigitsValue(SubSeq(s, 1, Len(s) - 1)) + DigitValue(s[Len(s)])

RECURSIVE NatText(_)
NatText(n) ==
    IF n < 10 THEN <<DigitChars[n + 1]>>
    ELSE Append(NatText(n \div 10), DigitChars[(n % 10) + 1])

\* The decimals of f thousandths, without the zeros at the end.
FractionText(f) ==
    LET d == <<DigitChars[(f \div 100) + 1], DigitChars[((f \div 10) % 10) + 1],
               DigitChars[(f % 10) + 1]>>
    IN IF f % 100 = 0 THEN SubSeq(d, 1, 1)
       ELSE IF f % 10 = 0 THEN SubSeq(d, 1, 2)
       ELSE d

\* str(default_value): the defaults with no decimals are int literals.
Str(v) ==
    LET a == IF v < 0 THEN -v ELSE v
        sign == IF v < 0 THEN <<"-">> ELSE <<>>
    IN IF a % Scale = 0 THEN sign \o NatText(a \div Scale)
       ELSE sign \o NatText(a \div Scale) \o <<".">> \o FractionText(a % Scale)

ReplaceCommaNot(s) == s

\* text.replace(",", ".")
ReplaceComma(s) == [i \in 1..Len(s) |-> IF s[i] = "," THEN "." ELSE s[i]]

Unsigned(s) == IF s # <<>> /\ s[1] \in {"-", "+"} THEN Tail(s) ELSE s

SignOf(s) == IF s # <<>> /\ s[1] = "-" THEN -1 ELSE 1

ValueError == [ok |-> FALSE, value |-> 0]

\* int(text), for texts of digits, signs, dots, commas and letters.
ParseInt(s) ==
    LET u == Unsigned(s)
    IN IF u # <<>> /\ \A i \in 1..Len(u) : IsDigit(u[i])
       THEN [ok |-> TRUE, value |-> SignOf(s) * DigitsValue(u) * Scale]
       ELSE ValueError

\* float(text), for the same texts with at most three decimals.
ParseFloat(s) ==
    LET u == Unsigned(s)
        dots == {i \in 1..Len(u) : u[i] = "."}
        p == IF dots = {} THEN Len(u) + 1 ELSE CHOOSE i \in dots : TRUE
        whole == SubSeq(u, 1, p - 1)
        decimals == SubSeq(u, p + 1, Len(u))
    IN IF /\ \A i \in 1..Len(u) : IsDigit(u[i]) \/ u[i] = "."
          /\ Cardinality(dots) <= 1
          /\ Len(whole) + Len(decimals) > 0
          /\ Len(decimals) <= 3
       THEN [ok |-> TRUE,
             value |-> SignOf(s) * (DigitsValue(whole) * Scale
                           + DigitsValue(SubSeq(decimals \o <<"0", "0", "0">>, 1, 3)))]
       ELSE ValueError

Parse(parse_function, s) == IF parse_function = "int" THEN ParseInt(s) ELSE ParseFloat(s)

FallbackValueUnscaled(el) == el.default_value * Scale

\* element["default_value"] * element["multiplicate_to_SI"]
FallbackValue(el) == el.default_value * el.multiplicate_to_SI

Put(m, k, v) == [x \in DOMAIN m \cup {k} |-> IF x = k THEN v ELSE m[x]]

ElementOfInput ==
    [f \in InputNames |-> CHOOSE k \in 1..Len(Declared) : Declared[k].input_name = f]

ElementOf(f) == ElementOfInput[f]

\* add_user_inputs: every field shows its default.
DefaultTexts == [f \in InputNames |-> Str(Declared[ElementOf(f)].default_value)]

DefaultText(f) == DefaultTexts[f]

\* The text of field f, when inp holds the texts of the fields that do not show
\* their default.
TextOf(inp, f) == IF f \in DOMAIN inp THEN inp[f] ELSE DefaultText(f)

\* The fields with text put into field f; setText(str(default_value)) is
\* SetText(inp, f, DefaultText(f)).
SetText(inp, f, text) ==
    IF text = DefaultText(f)
    THEN [g \in DOMAIN inp \ {f} |-> inp[g]]
    ELSE Put(inp, f, text)

\* One iteration of the loop of get_numbers_from_the_user_input: the try block on
\* the text of the element's field and, on ValueError, the default.
ReadElement(element, inp) ==
    LET value_from_user == ReplaceComma(TextOf(inp, element.input_name))
        parsed == Parse(element.parse_function, value_from_user)
    IN IF parsed.ok
       THEN [ok |-> TRUE, value |-> parsed.value * element.multiplicate_to_SI]
       ELSE [ok |-> FALSE, value |-> FallbackValue(element)]

\* The iterations on fields that show their default.
ReadOfDefault == [k \in 1..Len(Declared) |-> ReadElement(Declared[k], <<>>)]

\* The whole loop: what it returns, the texts it leaves in the fields and the
\* dialogs it shows, in the order of the declaration.  Every iteration reads its
\* own field and writes its own key (the declared names are all different).
GetNumbersFromTheUserInput(inp) ==
    LET read == [k \in 1..Len(Declared) |->
                    IF Declared[k].input_name \in DOMAIN inp
                    THEN ReadElement(Declared[k], inp)
                    ELSE ReadOfDefault[k]]
        failed == SelectSeq([k \in 1..Len(Declared) |-> k], LAMBDA k : ~read[k].ok)
    IN [values_dictionary |->
            [v \in VariableNames |->
                read[CHOOSE k \in 1..Len(Declared) : Declared[k].variable_name = v].value],
        inputs |->
            [f \in {g \in DOMAIN inp : read[ElementOf(g)].ok} |-> inp[f]],
        errors |-> [i \in 1..Len(failed) |-> Declared[failed[i]].name]]

\* Every field shows its default.
DefaultInputs == <<>>

\* The material menu shows 'Iron'; the properties are looked up in the material
\* service.
ChosenMaterial == "Iron"

MaterialProperty(material, property) == <<material, property>>

\* parameters: the numbers of the user and the three properties of the material.
Parameters(values_dictionary) ==
    LET withRho == Put(values_dictionary, "rho", MaterialProperty(ChosenMaterial, "rho"))
        withCp == Put(withRho, "cp", MaterialProperty(ChosenMaterial, "cp"))
    IN Put(withCp, "lmbd", MaterialProperty(ChosenMaterial, "lmbd"))

\* The parameters when every field holds its default.
DefaultParameters ==
    Parameters(GetNumbersFromTheUserInput(DefaultInputs).values_dictionary)

\* The rows _save_results_to_csv_file writes after the header: one for every
\* recorded step, its time and its quantity.
SavedRows(w) == [i \in 1..Len(hist[w]) |-> <<(i - 1) * Dt, hist[w][i]>>]

CsvFile(w) == [header |-> <<"Time [s]", "quantity_and_unit">>, rows |-> SavedRows(w)]

SavedAlways(w) == Append(saving[w].csv, CsvFile(w))

\* if self.save_results: self._save_results_to_csv_file()
Saved(w) == IF saving[w].save_results THEN Append(saving[w].csv, CsvFile(w)) ELSE saving[w].csv

\* ------------------------------------------------------------------ initial state
CtlInitSaving(checked) ==
    /\ gui_state = "started"
    /\ locked = FALSE
    /\ queue = <<>>
    /\ nposted = 0
    /\ nconsumed = 0
    /\ nRuns = 0
    /\ sigq = <<>>
    /\ pc = [w \in Workers |-> "idle"]
    /\ cbState = [w \in Workers |-> "none"]
    /\ lastCall = [w \in Workers |-> 0]
    /\ stepIdx = [w \in Workers |-> 0]
    /\ hist = [w \in Workers |-> <<>>]
    /\ emitted = [w \in Workers |-> -1]
    /\ stopAt = [w \in Workers |-> -1]
    /\ stopPending = [w \in Workers |-> FALSE]
    /\ applied = [w \in Workers |-> <<>>]
    /\ raised = {}
    /\ plots = [w \in Workers |-> <<>>]
    /\ emits = [w \in Workers |-> -1]
    /\ error_norm = [w \in Workers |-> None]
    /\ result = [w \in Workers |-> None]
    /\ form = [inputs |-> DefaultInputs, errors |-> <<>>, save_data |-> checked,
               parameters |-> None]
    /\ saving = [w \in Workers |-> [save_results |-> FALSE, csv |-> <<>>]]

\* A QCheckBox is created unchecked.
CtlInit == CtlInitSaving(FALSE)

Init ==
    /\ CtlInit
    /\ FwdUnused

\* ------------------------------------------------------------------ the GUI thread
QueuePut(m) ==
    /\ nposted < MaxPosts
    /\ queue' = Append(queue, [msg |-> m, seq |-> nposted + 1])
    /\ nposted' = nposted + 1

PressPauseUnguarded ==
    /\ gui_state' = "paused"
    /\ QueuePut("pause")
    /\ UNCHANGED <<locked, nRuns, nconsumed, sigq>>
    /\ UNCHANGED workerVars
    /\ UNCHANGED fwdVars
    /\ UNCHANGED inputVars

PressPause ==
    /\ IF gui_state = "running"
       THEN /\ gui_state' = "paused"
            /\ QueuePut("pause")
       ELSE UNCHANGED <<gui_state, queue, nposted>>
    /\ UNCHANGED <<locked, nRuns, nconsumed, sigq>>
    /\ UNCHANGED workerVars
    /\ UNCHANGED fwdVars
    /\ UNCHANGED inputVars

PressStopUnguarded ==
    /\ gui_state' = "stopped"
    /\ QueuePut("stop")
    /\ UNCHANGED <<locked, nRuns, nconsumed, sigq>>
    /\ UNCHANGED workerVars
    /\ UNCHANGED fwdVars
    /\ UNCHANGED inputVars

PressStop ==
    /\ IF gui_state \in {"running", "paused"}
       THEN /\ gui_state' = "stopped"
            /\ QueuePut("stop")
       ELSE UNCHANGED <<gui_state, queue, nposted>>
    /\ UNCHANGED <<locked, nRuns, nconsumed, sigq>>
    /\ UNCHANGED workerVars
    /\ UNCHANGED fwdVars
    /\ UNCHANGED inputVars

\* threadpool.start(worker): the worker waits for a thread of the pool.
StartWorker ==
    /\ nRuns < MaxRuns
    /\ nRuns' = nRuns + 1
    /\ pc' = [pc EXCEPT ![nRuns + 1] = "pending"]

PressRun ==
    /\ IF gui_state = "running"
       THEN UNCHANGED <<gui_state, locked, queue, nposted, nRuns, pc>>
       ELSE IF gui_state = "paused"
       THEN /\ QueuePut("continue")
            /\ gui_state' = "running"
            /\ UNCHANGED <<locked, nRuns, pc>>
       ELSE /\ gui_state' = "running"
            /\ locked' = TRUE
            /\ StartWorker
            /\ UNCHANGED <<queue, nposted>>
    /\ IF gui_state \in {"running", "paused"}
       THEN UNCHANGED <<form, saving>>
       ELSE LET got == GetNumbersFromTheUserInput(form.inputs)
            IN /\ form' = [form EXCEPT !.inputs = got.inputs,
                                        !.errors = got.errors,
                                        !.parameters = Parameters(got.values_dictionary)]
               /\ saving' = [saving EXCEPT ![nRuns + 1].save_results = form.save_data]
    /\ UNCHANGED <<nconsumed, sigq, cbState, lastCall, stepIdx, hist, emitted,
                   stopAt, stopPending, applied, raised, plots, emits, error_norm, result>>
    /\ UNCHANGED fwdVars

\* The slot connected to the worker's finished signal.
SimulationFinished ==
    /\ sigq # <<>>
    /\ pc[Head(sigq)] = "signalled"
    /\ sigq' = Tail(sigq)
    /\ pc' = [pc EXCEPT ![Head(sigq)] = "done"]
    /\ locked' = FALSE
    /\ gui_state' = "finished"
    /\ UNCHANGED <<queue, nposted, nconsumed, nRuns, cbState, lastCall, stepIdx, hist,
                   emitted, stopAt, stopPending, applied, raised, plots, emits,
                   error_norm, result>>
    /\ UNCHANGED fwdVars
    /\ UNCHANGED inputVars

\* ------------------------------------------------------------------ a worker thread
Executing(w) == pc[w] \in {"loop", "polled", "flush", "flushpolled", "flushed", "failed"}

InLoop(w) == pc[w] \in {"loop", "polled"}

\* The pool gives the worker a thread; the simulation builds its Sim and its
\* SimulationController, whose Callback starts in "running".
WorkerStart(w) ==
    /\ pc[w] = "pending"
    /\ Cardinality({v \in Workers : Executing(v)}) < MaxThreadCount
    /\ pc' = [pc EXCEPT ![w] = "loop"]
    /\ cbState' = [cbState EXCEPT ![w] = "running"]
    /\ lastCall' = [lastCall EXCEPT ![w] = 0]
    /\ stepIdx' = [stepIdx EXCEPT ![w] = 0]
    /\ hist' = [hist EXCEPT ![w] = <<InitialField>>]
    /\ UNCHANGED <<gui_state, locked, queue, nposted, nconsumed, nRuns, sigq, emitted,
                   stopAt, stopPending, applied, raised, plots, emits, error_norm, result>>
    /\ UNCHANGED fwdVars
    /\ UNCHANGED inputVars

\* One loop iteration up to the queue.empty() test of the callback; with an empty
\* queue the callback returns at once and the iteration is carried out.
CallbackCheck(w) ==
    /\ pc[w] = "loop"
    /\ ~SimulationHasFinished(w)
    /\ plots' = [plots EXCEPT ![w] = ReportedPlots(w, FALSE)]
    /\ lastCall' = [lastCall EXCEPT ![w] = ReportedLastCall(w, FALSE)]
    /\ stopPending' = [stopPending EXCEPT ![w] = StopInQueue]
    /\ IF QueueEmpty(queue)
       THEN /\ emitted' = [emitted EXCEPT ![w] = ValueToEmit(cbState[w])]
            /\ emits' = [emits EXCEPT ![w] = 1]
            /\ Iterate(w, cbState[w])
       ELSE /\ pc' = [pc EXCEPT ![w] = "polled"]
            /\ emits' = [emits EXCEPT ![w] = 0]
            /\ UNCHANGED <<emitted, stepIdx, hist>>
    /\ UNCHANGED <<gui_state, locked, queue, nposted, nconsumed, nRuns, sigq, cbState,
                   stopAt, applied, raised, error_norm, result>>
    /\ UNCHANGED fwdVars
    /\ UNCHANGED inputVars

\* get_nowait, the message applied, the value emitted and the rest of the iteration.
CallbackGet(w) ==
    /\ pc[w] = "polled"
    /\ IF QueueEmpty(queue)
       THEN RaiseEmpty(w)
       ELSE LET got == QueueGet(queue)
                st == ApplyMsg(cbState[w], got.item.msg)
            IN /\ queue' = got.rest
               /\ nconsumed' = nconsumed + 1
               /\ applied' = [applied EXCEPT ![w] = Append(@, got.item)]
               /\ cbState' = [cbState EXCEPT ![w] = st]
               /\ emitted' = [emitted EXCEPT ![w] = ValueToEmit(st)]
               /\ emits' = [emits EXCEPT ![w] = @ + 1]
               /\ stopAt' = [stopAt EXCEPT ![w] =
                                IF got.item.msg = "stop" /\ @ = -1 THEN stepIdx[w] ELSE @]
               /\ Iterate(w, st)
               /\ UNCHANGED raised
    /\ stopPending' = [stopPending EXCEPT ![w] = FALSE]
    /\ UNCHANGED <<gui_state, locked, nposted, nRuns, sigq, lastCall, plots, error_norm,
                   result>>
    /\ UNCHANGED fwdVars
    /\ UNCHANGED inputVars

\* The while condition fails: the simulation has finished.
LoopExit(w) ==
    /\ pc[w] = "loop"
    /\ SimulationHasFinished(w)
    /\ pc' = [pc EXCEPT ![w] = "flush"]
    /\ UNCHANGED <<gui_state, locked, queue, nposted, nconsumed, nRuns, sigq, cbState,
                   lastCall, stepIdx, hist, emitted, stopAt, stopPending, applied, raised,
                   plots, emits, error_norm, result>>
    /\ UNCHANGED fwdVars
    /\ UNCHANGED inputVars

\* The callback called with force_update, up to its queue.empty() test.
FlushCheck(w) ==
    /\ pc[w] = "flush"
    /\ plots' = [plots EXCEPT ![w] = ReportedPlots(w, TRUE)]
    /\ lastCall' = [lastCall EXCEPT ![w] = ReportedLastCall(w, TRUE)]
    /\ IF QueueEmpty(queue)
       THEN /\ emitted' = [emitted EXCEPT ![w] = ValueToEmit(cbState[w])]
            /\ emits' = [emits EXCEPT ![w] = 1]
            /\ pc' = [pc EXCEPT ![w] = "flushed"]
       ELSE /\ pc' = [pc EXCEPT ![w] = "flushpolled"]
            /\ emits' = [emits EXCEPT ![w] = 0]
            /\ UNCHANGED emitted
    /\ UNCHANGED <<gui_state, locked, queue, nposted, nconsumed, nRuns, sigq, cbState,
                   stepIdx, hist, stopAt, stopPending, applied, raised, error_norm, result>>
    /\ UNCHANGED fwdVars
    /\ UNCHANGED inputVars

FlushGet(w) ==
    /\ pc[w] = "flushpolled"
    /\ IF QueueEmpty(queue)
       THEN RaiseEmpty(w)
       ELSE LET got == QueueGet(queue)
                st == ApplyMsg(cbState[w], got.item.msg)
            IN /\ queue' = got.rest
               /\ nconsumed' = nconsumed + 1
               /\ applied' = [applied EXCEPT ![w] = Append(@, got.item)]
               /\ cbState' = [cbState EXCEPT ![w] = st]
               /\ emitted' = [emitted EXCEPT ![w] = ValueToEmit(st)]
               /\ emits' = [emits EXCEPT ![w] = @ + 1]
               /\ pc' = [pc EXCEPT ![w] = "flushed"]
               /\ UNCHANGED <<raised, stepIdx, hist, stopAt>>
    /\ UNCHANGED <<gui_state, locked, nposted, nRuns, sigq, lastCall, stopPending, plots,
                   error_norm, result>>
    /\ UNCHANGED fwdVars
    /\ UNCHANGED inputVars

\* calculate_final_error, the optional CSV file, the return; the worker then emits
\* its result and its finished signal to the GUI thread.
Return(w) ==
    /\ pc[w] = "flushed"
    /\ error_norm' = [error_norm EXCEPT ![w] = Some(CalculateFinalError(w))]
    /\ result' = [result EXCEPT ![w] = Some([error_value |-> error_norm'[w]])]
    /\ pc' = [pc EXCEPT ![w] = "signalled"]
    /\ saving' = [saving EXCEPT ![w].csv = Saved(w)]
    /\ sigq' = Append(sigq, w)
    /\ UNCHANGED <<gui_state, locked, queue, nposted, nconsumed, nRuns, cbState,
                   lastCall, stepIdx, hist, emitted, stopAt, stopPending, applied, raised,
                   plots, emits, form>>
    /\ UNCHANGED fwdVars

\* The exception leaves the worker's function; the worker still emits its
\* finished signal.
WorkerFails(w) ==
    /\ pc[w] = "failed"
    /\ pc' = [pc EXCEPT ![w] = "signalled"]
    /\ sigq' = Append(sigq, w)
    /\ UNCHANGED <<gui_state, locked, queue, nposted, nconsumed, nRuns, cbState,
                   lastCall, stepIdx, hist, emitted, stopAt, stopPending, applied, raised,
                   plots, emits, error_norm, result>>
    /\ UNCHANGED fwdVars
    /\ UNCHANGED inputVars

WorkerNext(w) ==
    \/ WorkerStart(w)
    \/ CallbackCheck(w)
    \/ CallbackGet(w)
    \/ LoopExit(w)
    \/ FlushCheck(w)
    \/ FlushGet(w)
    \/ Return(w)
    \/ WorkerFails(w)

Next ==
    \/ PressRun
    \/ PressPause
    \/ PressStop
    \/ SimulationFinished
    \/ \E w \in Workers : WorkerNext(w)

Spec == Init /\ [][Next]_vars

\* Every worker runs on a thread of its own, which the operating system keeps
\* scheduling, and the GUI event loop handles every signal it is sent; nothing
\* makes the user press a button.
Fairness ==
    /\ \A w \in Workers : WF_vars(WorkerNext(w))
    /\ WF_vars(SimulationFinished)

SpecFair == Spec /\ Fairness

\* ------------------------------------------------------------------ the Callback alone
\* One controller driven by a caller that may put anything on the queue it passed in,
\* constructed with save_results set or not.
InitCb ==
    /\ gui_state = "running"
    /\ locked = TRUE
    /\ queue = <<>>
    /\ nposted = 0
    /\ nconsumed = 0
    /\ nRuns = 1
    /\ sigq = <<>>
    /\ pc = [w \in Workers |-> IF w = 1 THEN "pending" ELSE "idle"]
    /\ cbState = [w \in Workers |-> "none"]
    /\ lastCall = [w \in Workers |-> 0]
    /\ stepIdx = [w \in Workers |-> 0]
    /\ hist = [w \in Workers |-> <<>>]
    /\ emitted = [w \in Workers |-> -1]
    /\ stopAt = [w \in Workers |-> -1]
    /\ stopPending = [w \in Workers |-> FALSE]
    /\ applied = [w \in Workers |-> <<>>]
    /\ raised = {}
    /\ plots = [w \in Workers |-> <<>>]
    /\ emits = [w \in Workers |-> -1]
    /\ error_norm = [w \in Workers |-> None]
    /\ result = [w \in Workers |-> None]
    /\ form = [inputs |-> DefaultInputs, errors |-> <<>>, save_data |-> FALSE,
               parameters |-> DefaultParameters]
    /\ saving \in {[w \in Workers |-> [save_results |-> w = 1 /\ b, csv |-> <<>>]] :
                      b \in BOOLEAN}
    /\ FwdUnused

EnvPost(m) ==
    /\ QueuePut(m)
    /\ UNCHANGED <<gui_state, locked, nRuns, nconsumed, sigq>>
    /\ UNCHANGED workerVars
    /\ UNCHANGED fwdVars
    /\ UNCHANGED inputVars

NextCb ==
    \/ \E m \in AnyMsgs : EnvPost(m)
    \/ WorkerStart(1)
    \/ CallbackCheck(1)
    \/ CallbackGet(1)
    \/ LoopExit(1)
    \/ FlushCheck(1)
    \/ FlushGet(1)
    \/ Return(1)

SpecCb == InitCb /\ [][NextCb]_vars

\* ------------------------------------------------------------------ the inputs alone
\* The texts the user types: a zero, a negative number, decimals written with a
\* comma and with a dot, a letter.
Texts ==
    { <<"0">>, <<"-", "1">>, <<"0", ",", "5">>, <<"2", ".", "5">>, <<"a">> }

\* The user types a text into a field that is not read-only; at most MaxEdits
\* fields hold something else than their default.
EditInput(f, text) ==
    /\ ~locked
    /\ form' = [form EXCEPT !.inputs = SetText(@, f, text)]
    /\ Cardinality(DOMAIN form'.inputs) <= MaxEdits
    /\ UNCHANGED <<gui_state, locked, queue, nposted, nconsumed, nRuns, sigq>>
    /\ UNCHANGED workerVars
    /\ UNCHANGED saving
    /\ UNCHANGED fwdVars

\* The user ticks or clears the "Save data" checkbox, which is never locked.
ToggleSave ==
    /\ form' = [form EXCEPT !.save_data = ~@]
    /\ UNCHANGED <<gui_state, locked, queue, nposted, nconsumed, nRuns, sigq>>
    /\ UNCHANGED workerVars
    /\ UNCHANGED saving
    /\ UNCHANGED fwdVars

\* The user fills in the form and presses Run.
NextIn ==
    \/ \E f \in InputNames, text \in Texts : EditInput(f, text)
    \/ ToggleSave
    \/ PressRun

SpecIn == Init /\ [][NextIn]_vars

\* The "Save data" checkbox has been ticked before the first run.
InitSave ==
    /\ CtlInitSaving(TRUE)
    /\ FwdUnused

SpecSave == InitSave /\ [][Next]_vars

TypeOK ==
    /\ gui_state \in {"started", "running", "paused", "stopped", "finished"}
    /\ locked \in BOOLEAN
    /\ nRuns \in 0..MaxRuns
    /\ \A w \in Workers :
         pc[w] \in {"idle", "pending", "loop", "polled", "flush", "flushpolled",
                    "flushed", "failed", "signalled", "done"}

\* ------------------------------------------------------------------ NumericalForward.py
\* Numbers are integers in units that make every division of the code exact:
\* lengths, conductivities and heat capacities are drawn from values that dx and 6
\* divide, and theta is a number of halves (Theta2 = 2*theta) multiplying even values.
\* The arguments take in a zero length, a zero conductivity and zero elements.
Lengths == {0, 12}
Materials == {[rho |-> 6, cp |-> 1, lmbd |-> 24], [rho |-> 6, cp |-> 1, lmbd |-> 0]}
Alphas == {2}
Fluxes == {0, 2}
Theta2s == {0, 1, 2}
TempRange == 0..MaxTemp

Exact(a, b) == b # 0 /\ a % b = 0

Uniform(n, c) == [i \in 0..n |-> c]

\* The temperature fields the model keeps the values of (the uniform ones), and
\* the field that stands for any field outside them.
Grid(n) == {Uniform(n, c) : c \in TempRange}

OffGrid(n) == [i \in 0..n |-> -1]

RECURSIVE SumTo(_, _)
SumTo(f, n) == IF n < 0 THEN 0 ELSE f[n] + SumTo(f, n - 1)

MatVec(A, x, n) == [i \in 0..n |-> SumTo([j \in 0..n |-> A[i][j] * x[j]], n)]

\* scipy.sparse.diags([lo, d, up], [-1, 0, 1], shape=(n+1, n+1))
Diags(lo, d, up, n) ==
    [i \in 0..n |-> [j \in 0..n |->
        IF j = i THEN d ELSE IF j = i - 1 THEN lo ELSE IF j = i + 1 THEN up ELSE 0]]

Scaled(c, A, n) == [i \in 0..n |-> [j \in 0..n |-> c * A[i][j]]]

ThetaTimes(theta2, x) == (theta2 * x) \div 2

OneMinusThetaTimes(theta2, x) == ((2 - theta2) * x) \div 2

\* M = dx*rho*cp*diags([1/6, 4/6, 1/6])
MassMatrix(dx, mat, n) ==
    LET c == (dx * mat.rho * mat.cp) \div 6
    IN Scaled(c, Diags(1, 4, 1, n), n)

StiffnessMatrixUncoupled(dx, mat, n) == Scaled(mat.lmbd \div dx, Diags(0, 2, 0, n), n)

\* K = (1/dx)*lmbd*diags([-1, 2, -1]), before the boundary entries are changed
StiffnessMatrix(dx, mat, n) == Scaled(mat.lmbd \div dx, Diags(-1, 2, -1, n), n)

HalveBoundaryFirstOnly(K, n) == [K EXCEPT ![0][0] = @ \div 2]

\* K[0,0] /= 2 and then K[N,N] /= 2
HalveBoundary(K, n) ==
    LET K1 == [K EXCEPT ![0][0] = @ \div 2]
    IN [K1 EXCEPT ![n][n] = @ \div 2]

\* Simulation.__init__; T is the reference of the array np.empty gave.
NewSim(c, ref) ==
    LET dx == c.Length \div c.N
    IN [L |-> c.Length, Mat |-> c.Material, N |-> c.N, T |-> ref, T_record |-> <<>>,
        HeatFlux |-> c.HeatFlux, RobinAlpha |-> c.RobinAlpha, T_amb |-> c.T_amb,
        t |-> <<>>, dx |-> dx,
        M |-> MassMatrix(dx, c.Material, c.N),
        K |-> HalveBoundary(StiffnessMatrix(dx, c.Material, c.N), c.N)]

\* spsolve(A, b): the solution of A*x = b when it is one of the fields of the grid.
Solve(A, b, n) ==
    LET sols == {x \in Grid(n) : MatVec(A, x, n) = b}
    IN IF sols # {} THEN CHOOSE x \in sols : TRUE ELSE OffGrid(n)

AssembledIntoK == "K"

\* The matrix that A = Sim.M + dt*theta*Sim.K is bound to: a new one.
AssembledInto == "A"

\* EvaluateNewStep(Sim, dt, theta) on the matrices and arrays as they are: what it
\* returns and what it leaves in the stored matrices.
EvaluateNewStep(S, arrs, dt, theta2) ==
    LET n == S.N
        T == arrs[S.T]
        tlast == Last(S.t)
        sum == [i \in 0..n |-> [j \in 0..n |->
                   S.M[i][j] + ThetaTimes(theta2, dt * S.K[i][j])]]
        mats1 == [nm \in {"M", "K", "A"} |->
                     IF nm = AssembledInto THEN sum
                     ELSE IF nm = "A" THEN sum ELSE S[nm]]
        rhs == [i \in 0..n |-> [j \in 0..n |->
                   mats1.M[i][j] - OneMinusThetaTimes(theta2, dt * mats1.K[i][j])]]
        b0 == MatVec(rhs, T, n)
        b1 == [b0 EXCEPT ![0] = @ + OneMinusThetaTimes(theta2, dt * S.HeatFlux)
                                  + ThetaTimes(theta2, dt * S.HeatFlux)]
        b2 == [b1 EXCEPT ![n] = @ - OneMinusThetaTimes(theta2, dt * S.RobinAlpha * T[n])]
        mats2 == [mats1 EXCEPT ![AssembledInto][n][n] =
                                   @ + ThetaTimes(theta2, dt * S.RobinAlpha)]
        b3 == [b2 EXCEPT ![n] = @ + OneMinusThetaTimes(theta2, dt * S.RobinAlpha * S.T_amb)
                                  + ThetaTimes(theta2, dt * S.RobinAlpha * S.T_amb)]
    IN [M |-> mats2.M, K |-> mats2.K, A |-> mats2[AssembledInto], b |-> b3,
        T |-> IF T \in Grid(n) THEN Solve(mats2[AssembledInto], b3, n) ELSE OffGrid(n)]

\* The arguments of one use of the forward solver: those of Simulation(...) and
\* those of ForwardSimulation(...).
Configs ==
    [Length : Lengths, Material : Materials, N : 0..MaxN, HeatFlux : Fluxes,
     RobinAlpha : Alphas, T_amb : TempRange, theta2 : Theta2s, T0 : TempRange,
     dt : 1..MaxDt, t_start : {0, 1}, t_stop : 0..MaxTStop]

\* Every division the constructor makes is exact, and so is every product by theta.
ExactConfig(c) ==
    /\ Exact(c.Length, c.N)
    /\ Exact((c.Length \div c.N) * c.Material.rho * c.Material.cp, 6)
    /\ Exact(c.Material.lmbd, c.Length \div c.N)
    /\ Exact(c.Material.lmbd \div (c.Length \div c.N), 2)
    /\ Exact(c.HeatFlux, 2)
    /\ Exact(c.RobinAlpha, 2)

\* What Simulation.__init__ raises: self.dx = Length/N divides by N, and
\* (1/self.dx) divides by dx; nothing else in it tests its arguments.
Exceptions == {"ZeroDivisionError"}

ZeroDivision(c) == c.N = 0 \/ c.Length \div c.N = 0

\* Call_at of DefaultCallBack.__init__ (100.0 s), in the time steps of the forward
\* solver: small enough for a run of MaxTStop to report.
DefaultCallAt == 1

\* DefaultCallBack(), evaluated once, when ForwardSimulation is defined.
DefaultCallBack ==
    [Call_at |-> DefaultCallAt, last_call |-> 0, x0 |-> 0, TempHistoryAtPoint_x0 |-> <<>>]

\* np.interp(x0, Sim.x, T) for an x0 that is not to the right of the first node.
InterpAtLeft(T) == T[0]

\* self.last_call += self.Call_at
AddCallAt(last_call, Call_at) == last_call + Call_at

\* plt.plot(x, y) raises ValueError when x and y differ in length.
PlotRaises(x_len, y_len) == x_len # y_len

\* DefaultCallBack.Call(Sim): the callback after the call, and what the call raises.
Call(self, S, arrs) ==
    LET history == Append(self.TempHistoryAtPoint_x0, InterpAtLeft(arrs[S.T]))
        appended == [self EXCEPT !.TempHistoryAtPoint_x0 = history]
    IN IF Last(S.t) > self.last_call + self.Call_at
       THEN IF PlotRaises(Len(S.t) - 1, Len(history))
            THEN [self |-> appended, raises |-> Some("ValueError")]
            ELSE [self |-> [appended EXCEPT
                               !.last_call = AddCallAt(self.last_call, self.Call_at)],
                  raises |-> None]
       ELSE [self |-> appended, raises |-> None]

InitFwd ==
    /\ CtlInit
    /\ cfg \in {c \in Configs : ZeroDivision(c) \/ ExactConfig(c)}
    /\ Sim = None
    /\ arrays = <<>>
    /\ fwd = None
    /\ fpc = "none"
    /\ fruns = 0
    /\ CallBack = DefaultCallBack

\* Sim = Simulation(...): a new object replaces the one in use, if any, unless the
\* constructor raises.  What np.empty leaves in the array is any field at all.
NewSimulation ==
    /\ fpc \in {"none", "ready"}
    /\ fruns < MaxForward
    /\ IF ZeroDivision(cfg)
       THEN /\ fpc' = "ZeroDivisionError"
            /\ UNCHANGED <<Sim, arrays, fwd>>
       ELSE /\ arrays' = <<OffGrid(cfg.N)>>
            /\ Sim' = NewSim(cfg, 1)
            /\ fwd' = None
            /\ fpc' = "ready"
    /\ UNCHANGED <<cfg, fruns, CallBack>>
    /\ UNCHANGED ctlVars

\* ForwardSimulation(Sim, ...) up to its loop, on the Simulation in use, new or not.
StartForward ==
    /\ fpc = "ready"
    /\ fruns < MaxForward
    /\ Sim' = [Sim EXCEPT !.t = Append(@, cfg.t_start),
                          !.T_record = Append(@, Sim.T)]
    /\ arrays' = [arrays EXCEPT ![Sim.T] = Uniform(Sim.N, cfg.T0)]
    /\ fwd' = [base |-> Len(Sim.t), A |-> None, b |-> None, Tnew |-> None,
               again |-> None, calls |-> 0]
    /\ fpc' = "loop"
    /\ fruns' = fruns + 1
    /\ UNCHANGED <<cfg, CallBack>>
    /\ UNCHANGED ctlVars

LoopContinuesInclusive(S, t_stop) == Last(S.t) <= t_stop

\* while Sim.t[-1] < t_stop
LoopContinues(S, t_stop) == Last(S.t) < t_stop

\* The call of EvaluateNewStep in the loop body.
EvaluateStep ==
    /\ fpc = "loop"
    /\ LoopContinues(Sim, cfg.t_stop)
    /\ LET r == EvaluateNewStep(Sim, arrays, cfg.dt, cfg.theta2)
       IN /\ Sim' = [Sim EXCEPT !.M = r.M, !.K = r.K]
          /\ fwd' = [fwd EXCEPT !.A = r.A, !.b = r.b, !.Tnew = r.T, !.again = None,
                                !.calls = 1]
    /\ fpc' = "evaluated"
    /\ UNCHANGED <<cfg, arrays, fruns, CallBack>>
    /\ UNCHANGED ctlVars

\* A caller calls EvaluateNewStep once more on the same Sim before anything is
\* committed, and keeps what it returns.
EvaluateAgain ==
    /\ fpc = "evaluated"
    /\ fwd.calls < MaxCalls
    /\ LET r == EvaluateNewStep(Sim, arrays, cfg.dt, cfg.theta2)
       IN /\ Sim' = [Sim EXCEPT !.M = r.M, !.K = r.K]
          /\ fwd' = [fwd EXCEPT !.A = r.A, !.b = r.b, !.again = r.T, !.calls = @ + 1]
    /\ UNCHANGED <<cfg, arrays, fpc, fruns, CallBack>>
    /\ UNCHANGED ctlVars

\* Sim.T = <the new array>; Sim.T_record.append(Sim.T); Sim.t.append(Sim.t[-1] + dt);
\* CallBack.Call(Sim), with the default CallBack.  What Call raises ends the run.
CommitStep ==
    /\ fpc = "evaluated"
    /\ arrays' = Append(arrays, fwd.Tnew)
    /\ Sim' = [Sim EXCEPT !.T = Len(arrays) + 1,
                          !.T_record = Append(@, Len(arrays) + 1),
                          !.t = Append(@, Last(@) + cfg.dt)]
    /\ LET r == Call(CallBack, Sim', arrays')
       IN /\ CallBack' = r.self
          /\ fpc' = IF r.raises = None THEN "loop" ELSE r.raises[1]
    /\ UNCHANGED <<cfg, fwd, fruns>>
    /\ UNCHANGED ctlVars

\* The loop condition fails and ForwardSimulation returns.
EndForward ==
    /\ fpc = "loop"
    /\ ~LoopContinues(Sim, cfg.t_stop)
    /\ fpc' = "ready"
    /\ UNCHANGED <<cfg, Sim, arrays, fwd, fruns, CallBack>>
    /\ UNCHANGED ctlVars

NextFwd ==
    \/ NewSimulation
    \/ StartForward
    \/ EvaluateStep
    \/ EvaluateAgain
    \/ CommitStep
    \/ EndForward

SpecFwd == InitFwd /\ [][NextFwd]_vars

\* The t_stop a caller may give a later invocation: beyond MaxTStop, so that the
\* later run can be longer than any earlier one.
MaxLaterStop == 3

\* The caller that has constructed a Simulation chooses another t_stop for the
\* invocation it is about to make on it.
NewArguments ==
    /\ fpc = "ready"
    /\ fwd = None
    /\ fruns < MaxForward
    /\ \E s \in 0..MaxLaterStop :
          /\ s # cfg.t_stop
          /\ cfg' = [cfg EXCEPT !.t_stop = s]
    /\ UNCHANGED <<Sim, arrays, fwd, fpc, fruns, CallBack>>
    /\ UNCHANGED ctlVars

NextFwdSeq ==
    \/ NextFwd
    \/ NewArguments

\* Sequences of forward runs whose arguments differ from one run to the next.
SpecFwdSeq == InitFwd /\ [][NextFwdSeq]_vars

\* The temperature history as the fields the references of Sim.T_record lead to.
TRecord == [i \in 1..Len(Sim.T_record) |-> arrays[Sim.T_record[i]]]

\* ------------------------------------------------------------------ helpers of the claims
\* Nothing but worker w can have taken the step: the GUI thread and the other
\* workers have left everything of theirs as it was.
OnlyWorkerActs(w) ==
    /\ gui_state' = gui_state
    /\ locked' = locked
    /\ nRuns' = nRuns
    /\ nposted' = nposted
    /\ \A v \in Workers \ {w} :
         /\ pc'[v] = pc[v]
         /\ cbState'[v] = cbState[v]
         /\ lastCall'[v] = lastCall[v]
         /\ stepIdx'[v] = stepIdx[v]
         /\ emitted'[v] = emitted[v]
         /\ stopPending'[v] = stopPending[v]
         /\ applied'[v] = applied[v]

StateNamedBy(msg) ==
    IF msg = "stop" THEN "stopped" ELSE IF msg = "pause" THEN "paused" ELSE "running"

IsPrefix(s, t) == Len(s) <= Len(t) /\ \A i \in 1..Len(s) : s[i] = t[i]

Returned(w) == pc[w] \in {"signalled", "done"}

SpecTransitions ==
    { <<"started", "running">>, <<"running", "paused">>, <<"paused", "running">>,
      <<"running", "stopped">>, <<"paused", "stopped">>, <<"running", "finished">> }

C4_StopImmediate ==
    [][ \A w \in Workers :
            pc[w] = "polled" /\ stopPending[w] => stepIdx'[w] = stepIdx[w] ]_vars

\* ------------------------------------------------------------------ C5
\* C5: whatever pause, continue (and unknown) messages a run consumes, its committed
\* history is at every moment a prefix of the history of the uninterrupted run, and
\* a run that leaves the loop without having consumed a stop in it has committed
\* exactly the NSteps steps and the history of the uninterrupted run.
C5_PauseContinueIdempotent ==
    \A w \in Workers :
        /\ pc[w] \notin {"idle", "pending"} =>
              /\ IsPrefix(hist[w], RefHist(NSteps))
              /\ Len(hist[w]) = stepIdx[w] + 1
        /\ pc[w] \in {"flush", "flushpolled", "flushed", "failed", "signalled", "done"}
             /\ stopAt[w] = -1 /\ w \notin raised =>
              /\ stepIdx[w] = NSteps
              /\ hist[w] = RefHist(NSteps)
              /\ Last(hist[w]) = Last(RefHist(NSteps))

\* A run that was paused and continued has returned with all its steps.
C5_Witness ==
    \E w \in Workers :
        /\ pc[w] = "signalled"
        /\ stopAt[w] = -1
        /\ stepIdx[w] = NSteps
        /\ \E i, j \in 1..Len(applied[w]) :
              i < j /\ applied[w][i].msg = "pause" /\ applied[w][j].msg = "continue"

\* ------------------------------------------------------------------ C6
\* A step of worker w that carries out the rest of a loop iteration: the callback
\* returns (with an empty queue at its test, or after taking a message).
IterationCompletes(w) ==
    /\ OnlyWorkerActs(w)
    /\ \/ pc[w] = "loop" /\ ~SimulationHasFinished(w) /\ queue = <<>>
       \/ pc[w] = "polled" /\ queue # <<>>

\* C6: in every loop iteration, if the callback returns "running" exactly one step is
\* evaluated (one history entry, the step index and the time advance by one step);
\* if it returns "paused" or "stopped" no step is evaluated and history, time and
\* step index stay as they were.
C6_StepExactlyInRunning ==
    [][ \A w \in Workers :
            IterationCompletes(w) =>
                IF cbState'[w] = "running"
                THEN /\ stepIdx'[w] = stepIdx[w] + 1
                     /\ Len(hist'[w]) = Len(hist[w]) + 1
                     /\ SubSeq(hist'[w], 1, Len(hist[w])) = hist[w]
                     /\ stepIdx'[w] * Dt = CurrentT(w) + Dt
                ELSE /\ cbState'[w] \in {"paused", "stopped"}
                     /\ stepIdx'[w] = stepIdx[w]
                     /\ hist'[w] = hist[w] ]_vars

\* A worker has committed a step, then consumed a pause and come round the loop
\* again without stepping.
C6_Witness ==
    \E w \in Workers :
        /\ pc[w] = "loop"
        /\ cbState[w] = "paused"
        /\ stepIdx[w] = 1
        /\ emitted[w] = 0
        /\ Len(applied[w]) = 1

C8_PollNeverRaises == raised = {}

\* ------------------------------------------------------------------ C9
\* C9 as stated: at most one worker is executing its loop at any time.
C9_SingleWorker == Cardinality({w \in Workers : InLoop(w)}) <= 1

\* ------------------------------------------------------------------ C10
\* C10: a callback invocation that takes a message other than pause, stop and
\* continue removes it from the queue, raises nothing, leaves the Callback state as
\* it was and emits the value of that state, and the loop goes on as it would have
\* with no message.
C10_UnknownIgnored ==
    [][ \A w \in Workers :
            /\ OnlyWorkerActs(w)
            /\ pc[w] \in {"polled", "flushpolled"}
            /\ queue # <<>>
            /\ Head(queue).msg \notin KnownMsgs
            =>
            /\ queue' = Tail(queue)
            /\ raised' = raised
            /\ cbState'[w] = cbState[w]
            /\ emitted'[w] = ValueToEmit(cbState[w])
            /\ stepIdx'[w] =
                 IF pc[w] = "polled" /\ cbState[w] = "running"
                 THEN stepIdx[w] + 1 ELSE stepIdx[w]
            /\ pc'[w] = IF pc[w] = "polled" THEN "loop" ELSE "flushed" ]_vars

\* A paused worker has taken an unknown message and is still paused.
C10_Witness ==
    \E w \in Workers :
        /\ cbState[w] = "paused"
        /\ pc[w] = "loop"
        /\ Len(applied[w]) = 2
        /\ applied[w][1].msg = "pause"
        /\ applied[w][2].msg = "other"

\* ------------------------------------------------------------------ helpers of C11..C14
\* The places of the forced reports among the plot calls of worker w.
ForcedPlots(w) == {i \in 1..Len(plots[w]) : plots[w][i].forced}

\* The step loop of worker w has been left and the forced callback has reported.
AfterForcedReport(w) == pc[w] \in {"flushpolled", "flushed"} \/ result[w] # None

InvocationBegins(w) ==
    /\ OnlyWorkerActs(w)
    /\ \/ pc[w] = "loop" /\ ~SimulationHasFinished(w)
       \/ pc[w] = "flush"

\* C12: a callback invocation, whatever the Callback state, makes one plot call and
\* advances last_call by call_at if current_t > last_call + call_at or it is the
\* forced one, and otherwise makes no plot call and leaves last_call as it was; no
\* plot call is made and last_call does not change anywhere else.
C12_RateLimit ==
    [][ \A w \in Workers :
            /\ InvocationBegins(w) =>
                  IF stepIdx[w] * Dt > lastCall[w] + CallAt \/ pc[w] = "flush"
                  THEN /\ Len(plots'[w]) = Len(plots[w]) + 1
                       /\ SubSeq(plots'[w], 1, Len(plots[w])) = plots[w]
                       /\ Last(plots'[w]).forced = (pc[w] = "flush")
                       /\ lastCall'[w] = lastCall[w] + CallAt
                  ELSE /\ plots'[w] = plots[w]
                       /\ lastCall'[w] = lastCall[w]
            /\ plots'[w] # plots[w] \/ lastCall'[w] # lastCall[w] =>
                  pc[w] \in {"loop", "flush"} /\ pc'[w] # "flush" ]_vars

\* A paused worker with one step committed has reported twice at that step, the
\* second time while paused, and has since come round without reporting.
C12_Witness ==
    \E w \in Workers :
        /\ cbState[w] = "paused"
        /\ pc[w] = "loop"
        /\ stepIdx[w] = 1
        /\ plots[w] = << [upto |-> 1, forced |-> FALSE], [upto |-> 1, forced |-> FALSE] >>
        /\ lastCall[w] = 2 * CallAt
        /\ stepIdx[w] * Dt <= lastCall[w] + CallAt

\* ------------------------------------------------------------------ C13
\* C13 as stated: every callback invocation that has ended has emitted exactly one
\* value, the value 1 if the Callback state it leaves is "running" and 0 otherwise.
C13_EmitsOncePerInvocation ==
    \A w \in Workers :
        emits[w] # -1 /\ pc[w] \notin {"polled", "flushpolled"} =>
            /\ emits[w] = 1
            /\ emitted[w] = ValueToEmit(cbState[w])

PostedMsgs ==
    {queue[i] : i \in 1..Len(queue)} \cup
    UNION {{applied[w][i] : i \in 1..Len(applied[w])} : w \in Workers}

\* Worker w is paused in its loop by a pause after which no continue and no stop
\* has been posted yet.
PauseUnanswered(w) ==
    /\ InLoop(w)
    /\ cbState[w] = "paused"
    /\ \E i \in 1..Len(applied[w]) :
          /\ applied[w][i].msg = "pause"
          /\ \A j \in (i + 1)..Len(applied[w]) : applied[w][j].msg \notin KnownMsgs
          /\ \A m \in PostedMsgs :
                m.seq > applied[w][i].seq => m.msg \notin {"continue", "stop"}

\* C15 as stated: if the worker threads are scheduled fairly and every pause a
\* worker consumed is eventually followed by the posting of a continue or a stop,
\* every worker that is in its step loop eventually leaves it and its call of
\* complete_simulation ends.
C15_EveryRunTerminates ==
    \A w \in Workers :
        [](PauseUnanswered(w) => <>(~PauseUnanswered(w)))
            => [](InLoop(w) => <>Returned(w))

\* ------------------------------------------------------------------ C16
StrictlyIncreasing(s) == \A i \in 1..(Len(s) - 1) : s[i] < s[i + 1]

\* C16 as stated: whatever Simulation a ForwardSimulation run is given, in every step
\* of the run the time history stays strictly increasing, the time history and the
\* temperature history keep every entry they had, unmodified, and at the loop
\* boundary the two have the same length.
C16_MonotonicHistory ==
    [][ fpc # "none" /\ ~(fpc = "ready" /\ fpc' = "ready") =>
            /\ IsPrefix(Sim.t, Sim'.t)
            /\ IsPrefix(TRecord, TRecord')
            /\ StrictlyIncreasing(Sim'.t)
            /\ fpc' = "loop" => Len(Sim'.t) = Len(Sim'.T_record) ]_vars

\* ------------------------------------------------------------------ C17
\* The invocation has ended: it returned, or the callback raised.
Ended == fpc \in {"ready", "ValueError"}

\* C17 as stated: a ForwardSimulation invocation on a new Simulation with
\* t_stop - t_start = n*dt, n >= 0, never has more than n+1 entries in its time
\* history or in its temperature history, and when it has ended it has n+1 entries in
\* each and has evaluated exactly n steps (one new array each).
C17_StepCount ==
    fpc \in {"loop", "evaluated", "ready", "ValueError"} /\ fwd # None /\ fwd.base = 0
        /\ cfg.t_stop >= cfg.t_start /\ Exact(cfg.t_stop - cfg.t_start, cfg.dt) =>
        LET n == (cfg.t_stop - cfg.t_start) \div cfg.dt
        IN /\ Len(Sim.t) <= n + 1
           /\ Len(Sim.T_record) <= n + 1
           /\ Ended =>
                 /\ Len(Sim.t) = n + 1
                 /\ Len(Sim.T_record) = n + 1
                 /\ Len(TRecord) = n + 1
                 /\ Len(arrays) = n + 1
                 /\ Last(Sim.t) = cfg.t_stop

\* ------------------------------------------------------------------ C18
\* C18: a call of EvaluateNewStep leaves the Simulation (M, K, T, t, T_record) and
\* every temperature array as they were, and a second call in the same state returns
\* what the first returned.
C18_StepIsPure ==
    [][ fpc' = "evaluated" =>
            /\ Sim' = Sim
            /\ arrays' = arrays
            /\ fwd'.calls >= 2 => fwd'.again = fwd'.Tnew ]_vars

\* EvaluateNewStep has been called twice with theta > 0: the Robin term is in A and
\* not in K, and both calls returned the same field of the grid.
C18_Witness ==
    /\ fpc = "evaluated"
    /\ fwd.calls = 2
    /\ cfg.theta2 = 1
    /\ fwd.Tnew \in Grid(Sim.N)
    /\ fwd.again = fwd.Tnew
    /\ fwd.A[Sim.N][Sim.N] =
          Sim.M[Sim.N][Sim.N] + ThetaTimes(cfg.theta2, cfg.dt * Sim.K[Sim.N][Sim.N])
              + ThetaTimes(cfg.theta2, cfg.dt * Sim.RobinAlpha)
    /\ ThetaTimes(cfg.theta2, cfg.dt * Sim.RobinAlpha) > 0

\* ------------------------------------------------------------------ C19
\* C19: once the Simulation is constructed, and after any number of steps, twice
\* K[0][0] and twice K[N][N] each equal the stiffness diagonal value 2*lmbd/dx, and
\* every other diagonal entry equals 2*lmbd/dx.
C19_BoundaryHalfWeighting ==
    fpc \notin {"none"} \cup Exceptions =>
        LET d == 2 * (Sim.Mat.lmbd \div Sim.dx)
        IN /\ 2 * Sim.K[0][0] = d
           /\ 2 * Sim.K[Sim.N][Sim.N] = d
           /\ \A i \in 1..(Sim.N - 1) : Sim.K[i][i] = d

\* A Simulation with an interior node has taken two steps.
C19_Witness ==
    /\ fpc = "ready"
    /\ Sim.N = 2
    /\ Len(Sim.t) = 3
    /\ Sim.K[1][1] = 2 * Sim.K[0][0]
    /\ Sim.K[1][1] = 2 * Sim.K[2][2]
    /\ Sim.K[0][0] > 0

\* ------------------------------------------------------------------ C20
\* C20: with zero heat flux and the ambient temperature equal to the uniform initial
\* temperature c, the uniform field c satisfies the system every call of
\* EvaluateNewStep assembles, no other uniform field does, it is what the call
\* returns, and every field of the temperature history is uniformly c.
C20_SteadyState ==
    fpc \in {"loop", "evaluated", "ready"} /\ fwd # None
        /\ cfg.HeatFlux = 0 /\ cfg.T_amb = cfg.T0 =>
        LET c == Uniform(Sim.N, cfg.T0)
        IN /\ \A i \in 1..Len(TRecord) : TRecord[i] = c
           /\ arrays[Sim.T] = c
           /\ fpc = "evaluated" =>
                 /\ MatVec(fwd.A, c, Sim.N) = fwd.b
                 /\ \A x \in Grid(Sim.N) : MatVec(fwd.A, x, Sim.N) = fwd.b => x = c
                 /\ fwd.Tnew = c

\* Two steps have been taken from the uniform field 1 with ambient temperature 1
\* and no flux, with the Crank-Nicolson weighting.
C20_Witness ==
    /\ fpc = "ready"
    /\ fwd # None
    /\ cfg.HeatFlux = 0
    /\ cfg.T_amb = 1
    /\ cfg.T0 = 1
    /\ cfg.theta2 = 1
    /\ Sim.N = 2
    /\ Len(TRecord) = 3
    /\ TRecord[3] = Uniform(2, 1)

\* ------------------------------------------------------------------ C21
\* The arguments the specification of the assembler rejects.
InvalidMesh(c) == c.N < 1 \/ c.Length <= 0

InvalidMaterial(c) == c.Material.rho <= 0 \/ c.Material.cp <= 0 \/ c.Material.lmbd <= 0

\* C21 as stated, an exception of any kind counting as the error: with N < 1 or
\* Length <= 0 or a material property <= 0 the construction of the Simulation fails,
\* no Simulation with matrices comes of it and no time step is ever evaluated.
C21_ConfigErrorsFailFast ==
    InvalidMesh(cfg) \/ InvalidMaterial(cfg) =>
        /\ fpc \in {"none"} \cup Exceptions
        /\ Sim = None
        /\ arrays = <<>>

\* ------------------------------------------------------------------ C22
\* The step of run_simulation that starts a run.
StartsRun == nRuns' = nRuns + 1

Range(s) == {s[i] : i \in DOMAIN s}

\* C22: parse errors are replaced by defaults.  The mapping a starting run reads
\* from the fields has one entry for every declared variable_name and no other
\* (run_simulation then adds rho, cp and lmbd); for every declared parameter,
\* whatever the other fields hold: if its text (commas read as dots) does not
\* parse, the entry is default_value * multiplicate_to_SI, the field shows the
\* default again and an error dialog names the parameter; if it parses, the
\* entry is parse_function(text) * multiplicate_to_SI, the field keeps its text
\* and no dialog names it.
C22_ParseErrorsReplacedByDefaults ==
    [][StartsRun =>
        LET p == form'.parameters
        IN /\ DOMAIN p \ {"rho", "cp", "lmbd"} = VariableNames
           /\ Cardinality(VariableNames) = Len(Declared)
           /\ \A k \in 1..Len(Declared) :
                LET el == Declared[k]
                    text == TextOf(form.inputs, el.input_name)
                    parsed == Parse(el.parse_function, ReplaceComma(text))
                IN IF parsed.ok
                   THEN /\ p[el.variable_name] = parsed.value * el.multiplicate_to_SI
                        /\ TextOf(form'.inputs, el.input_name) = text
                        /\ el.name \notin Range(form'.errors)
                   ELSE /\ p[el.variable_name] = el.default_value * el.multiplicate_to_SI
                        /\ TextOf(form'.inputs, el.input_name) = Str(el.default_value)
                        /\ el.name \in Range(form'.errors)]_vars

\* A run has started from fields of which one did not parse and was reset while
\* another held a decimal comma and was read as the number.
C22_Witness ==
    /\ nRuns = 1
    /\ form.errors = <<"Object length">>
    /\ "object_length_input_centimetres" \notin DOMAIN form.inputs
    /\ form.parameters["object_length"] = 10000
    /\ "theta_input" \in DOMAIN form.inputs
    /\ form.inputs["theta_input"] = <<"0", ",", "5">>
    /\ form.parameters["theta"] = 500000

\* ------------------------------------------------------------------ C23
\* One, in the unit of the entries of parameters (millionths).
One == Scale * Scale

\* C23: the configuration handed to a worker is validated.  Whatever the user
\* typed, the parameters a run was started with have number_of_elements >= 1,
\* 0 <= theta <= 1, window_span >= 1, tolerance > 0 and dt > 0.
C23_ConfigurationValidated ==
    form.parameters # None =>
        LET p == form.parameters
        IN /\ p["number_of_elements"] >= One
           /\ p["theta"] >= 0
           /\ p["theta"] <= One
           /\ p["window_span"] >= One
           /\ p["tolerance"] > 0
           /\ p["dt"] > 0

\* ------------------------------------------------------------------ C24
\* complete_simulation of worker w has been left, by its return or by an
\* exception.
Left(w) == pc[w] \in {"failed", "signalled", "done"}

\* C24: export after cancellation.  A run whose save_results is set has written
\* exactly one CSV file once complete_simulation is left, whether the run was
\* stopped or ran to its end, and none before the final forced report and the
\* error computation are done; the file has the header and one row for every
\* recorded step; a run whose save_results is not set writes nothing.
C24_ExportOncePerRun ==
    \A w \in Workers :
        /\ Left(w) /\ saving[w].save_results => Len(saving[w].csv) = 1
        /\ ~Left(w) \/ ~saving[w].save_results => saving[w].csv = <<>>
        /\ \A i \in 1..Len(saving[w].csv) :
                /\ error_norm[w] # None
                /\ saving[w].csv[i].header = <<"Time [s]", "quantity_and_unit">>
                /\ Len(saving[w].csv[i].rows) = Len(hist[w])

\* ------------------------------------------------------------------ C25
\* The step puts exactly the message m into the queue.
Posted(m) ==
    /\ nposted' = nposted + 1
    /\ queue' = Append(queue, [msg |-> m, seq |-> nposted'])

\* C25: the guards of the buttons, stated on what a step does to the state of
\* the window (gui_state, locked, the queue, the runs started).  A pause is
\* posted only in state running, a stop only in state running or paused, a
\* continue only in state paused; the step that posts sets the state to paused,
\* stopped, running respectively, posts that one message and starts no worker.
\* The state becomes paused or stopped by no other step, so Pause outside
\* running and Stop outside running and paused change nothing; a worker is
\* started, and the inputs are locked, only outside running and paused and
\* without a post, so Run in state running posts nothing and starts nothing.
C25_ButtonGuards ==
    [][/\ nposted' # nposted =>
            /\ nRuns' = nRuns /\ pc' = pc /\ locked' = locked
            /\ \/ Posted("pause") /\ gui_state = "running" /\ gui_state' = "paused"
               \/ Posted("stop") /\ gui_state \in {"running", "paused"} /\ gui_state' = "stopped"
               \/ Posted("continue") /\ gui_state = "paused" /\ gui_state' = "running"
       /\ nposted' = nposted => queue' = queue \/ queue' = Tail(queue)
       /\ gui_state' # gui_state /\ gui_state' = "paused" => Posted("pause")
       /\ gui_state' # gui_state /\ gui_state' = "stopped" => Posted("stop")
       /\ gui_state' # gui_state /\ gui_state' = "running" => Posted("continue") \/ StartsRun
       /\ StartsRun => gui_state \notin {"running", "paused"} /\ nposted' = nposted
       /\ locked' /\ ~locked => StartsRun]_vars

\* One run has been paused, continued and stopped by the buttons.
C25_Witness ==
    /\ nRuns = 1
    /\ nposted = 3
    /\ gui_state = "stopped"

\* ------------------------------------------------------------------ C26
\* C26 as stated: whenever run_simulation starts a new worker the shared control
\* queue is empty, so that no message posted during one run is consumed by the
\* worker of a later run.
C26_NoLeftoverMessages == [][StartsRun => queue = <<>>]_vars

\* ------------------------------------------------------------------ C27
\* C27 as stated: whenever a worker is executing its loop and the control queue
\* is empty, the worker's Callback.simulation_state equals the GUI's
\* simulation_state.
C27_StatesAgree ==
    \A w \in Workers : InLoop(w) /\ queue = <<>> => cbState[w] = gui_state

\* ------------------------------------------------------------------ C28
\* Worker w has been started and its finished signal has not been handled.
Active(w) == pc[w] \notin {"idle", "done"}

\* C28 as stated: while some worker is started and has not delivered its
\* finished signal, the inputs and the material menu are locked and the GUI
\* state is running, paused or stopped; unlocked inputs and the state finished
\* are seen only when no worker remains active.
C28_LockedWhileActive ==
    (\E w \in Workers : Active(w)) =>
        locked /\ gui_state \in {"running", "paused", "stopped"}

\* ------------------------------------------------------------------ C29
\* The Callback of worker w exists.
Constructed(w) == pc[w] \notin {"idle", "pending"}

\* The reports worker w has made without force_update.
NonForcedPlots(w) == {i \in 1..Len(plots[w]) : ~plots[w][i].forced}

\* C29 as stated: after every non-forced report last_call < current_t, and at
\* any point of a run the number of non-forced reports made so far is less than
\* current_t / call_at.
C29_Original ==
    \A w \in Workers :
        Constructed(w) =>
            /\ NonForcedPlots(w) # {} /\ ForcedPlots(w) = {} => lastCall[w] < CurrentT(w)
            /\ Cardinality(NonForcedPlots(w)) * CallAt < CurrentT(w)

\* C29 amended: every report advances last_call by call_at; after every non-forced
\* report last_call < current_t; at any point of a run the number of non-forced
\* reports made so far is at most current_t / call_at, and less than it as soon
\* as one has been made (before the first step both are 0).
C29_ReportCadence ==
    \A w \in Workers :
        Constructed(w) =>
            /\ lastCall[w] = Len(plots[w]) * CallAt
            /\ NonForcedPlots(w) # {} /\ ForcedPlots(w) = {} => lastCall[w] < CurrentT(w)
            /\ Cardinality(NonForcedPlots(w)) * CallAt <= CurrentT(w)
            /\ NonForcedPlots(w) # {} =>
                    Cardinality(NonForcedPlots(w)) * CallAt < CurrentT(w)

\* A run has made as many non-forced reports as the cadence allows at its time:
\* one more would reach current_t.
C29_Witness ==
    \E w \in Workers :
        /\ pc[w] = "loop"
        /\ ForcedPlots(w) = {}
        /\ Cardinality(NonForcedPlots(w)) >= 2
        /\ (Cardinality(NonForcedPlots(w)) + 1) * CallAt >= CurrentT(w)

\* ------------------------------------------------------------------ C30
\* C30 as stated: between any two consecutive non-forced reports of a run at
\* least one step has been committed, so that no two of them show the same
\* history; in particular a paused run, which commits no step, makes no second
\* non-forced report.
C30_NoRepeatedReport ==
    \A w \in Workers :
        \A i, j \in NonForcedPlots(w) :
            i < j => plots[w][i].upto < plots[w][j].upto
\* ------------------------------------------------------------------ C31
\* The ForwardSimulation invocation under way or last ended was given a Simulation
\* no earlier invocation had used, and has committed a step.
SteppedOnNewSimulation ==
    /\ fwd # None
    /\ fwd.base = 0
    /\ Len(Sim.t) > 1

\* C31 as stated: forward runs are independent of earlier runs.  After every step of
\* every ForwardSimulation invocation that is given a new Simulation and the default
\* CallBack, the callback's point-temperature history has as many entries as the
\* invocation has committed steps, len(Sim.t) - 1, and its last_call does not
\* exceed Sim.t[-1].
C31_ForwardRunsIndependent ==
    SteppedOnNewSimulation =>
        /\ Len(CallBack.TempHistoryAtPoint_x0) = Len(Sim.t) - 1
        /\ CallBack.last_call <= Last(Sim.t)

====
